---------------------------- MODULE Spec2Model ----------------------------
(***************************************************************************)
(* tajiUploader: a long-running process that copies Strava run activities  *)
(* to the Taji100 logging site.  The repository holds two revisions of the *)
(* one program: src/tajuploader.go and src/unnamed/part_000 (the later     *)
(* revision: type filter, log.Fatal on missing client credentials, the     *)
(* report step).  The variable build says which revision is running.       *)
(*                                                                         *)
(* Strava, the Taji100 site, the env file and the operator are the         *)
(* environment: what they answer is chosen with \E in the actions.         *)
(***************************************************************************)
EXTENDS Integers, Sequences, FiniteSets, Bags, TLC

(***************************************************************************)
(* Bounds of the model.                                                    *)
(***************************************************************************)
MaxCycles == 2
MaxRuns == 2
MaxElapsed == 7300
MaxRequests == 2

(***************************************************************************)
(* Formatting helpers: fmt.Sprintf verbs and time.Format layouts.          *)
(***************************************************************************)
Digit(d) == <<"0", "1", "2", "3", "4", "5", "6", "7", "8", "9">>[d + 1]

RECURSIVE Dec(_)
Dec(n) == IF n < 10 THEN Digit(n) ELSE Dec(n \div 10) \o Digit(n % 10)

\* %01d of a non-negative integer: at least one digit, no padding.
Fmt01d(n) == Dec(n)

\* %02d of a non-negative integer (and the layouts "01", "02", "03", "04").
Fmt02d(n) == IF n < 10 THEN "0" \o Dec(n) ELSE Dec(n)

\* The layout "2006": a four-digit year.
Fmt04d(n) ==
    IF n < 10 THEN "000" \o Dec(n)
    ELSE IF n < 100 THEN "00" \o Dec(n)
    ELSE IF n < 1000 THEN "0" \o Dec(n)
    ELSE Dec(n)

\* meters * 0.000621371, kept as hundredths of a mile rounded to nearest,
\* which is what "%1.2f" prints.  621371 = 621 * 1000 + 371 keeps the
\* products inside 32 bits.
meter2mile(meters) ==
    ((meters * 621 + (meters * 371) \div 1000) + 5000) \div 10000

\* "%1.2f" of a value given in hundredths.
Fmt12f(hundredths) ==
    Dec(hundredths \div 100) \o "." \o Fmt02d(hundredths % 100)

(***************************************************************************)
(* Calendar: t.In(time.Local) for a fixed-offset zone.                     *)
(***************************************************************************)
IsLeap(y) == (y % 4 = 0 /\ y % 100 # 0) \/ y % 400 = 0

DaysIn(y, m) ==
    IF m = 2 THEN (IF IsLeap(y) THEN 29 ELSE 28)
    ELSE IF m \in {4, 6, 9, 11} THEN 30 ELSE 31

\* The instant d (UTC fields) seen in the zone off minutes east of UTC.
InLocal(d, off) ==
    LET mins == d.hour * 60 + d.minute + off
        shift == IF mins < 0 THEN -1 ELSE IF mins >= 1440 THEN 1 ELSE 0
        lm == mins - shift * 1440
        back == d.day + shift < 1
        fwd == d.day + shift > DaysIn(d.year, d.month)
        m1 == IF back THEN (IF d.month = 1 THEN 12 ELSE d.month - 1)
              ELSE IF fwd THEN (IF d.month = 12 THEN 1 ELSE d.month + 1)
              ELSE d.month
        y1 == IF back /\ d.month = 1 THEN d.year - 1
              ELSE IF fwd /\ d.month = 12 THEN d.year + 1
              ELSE d.year
        d1 == IF back THEN DaysIn(y1, m1)
              ELSE IF fwd THEN 1
              ELSE d.day + shift
    IN  [year |-> y1, month |-> m1, day |-> d1,
         hour |-> lm \div 60, minute |-> lm % 60, second |-> d.second]

\* Layout "03": the hour on a 12-hour clock, two digits.
Hour12(h) == IF h % 12 = 0 THEN 12 ELSE h % 12

\* Layout "PM".
AmPm(h) == IF h >= 12 THEN "PM" ELSE "AM"

(***************************************************************************)
(* createRun: the canonical run record built from one Strava activity.     *)
(* date is the parsed RFC3339 start_date (UTC fields), duration the        *)
(* elapsed seconds, distance the meters; off is time.Local's offset.       *)
(***************************************************************************)
\* Mutant: the minutes are those within the hour.
decomposeWithinHour(duration) ==
    [seconds |-> duration % 60,
     minutes |-> (duration \div 60) % 60,
     hours |-> (duration \div 60) \div 60]

\* seconds, minutes and hours of createRun.
decompose(duration) ==
    [seconds |-> duration % 60,
     minutes |-> duration \div 60,
     hours |-> (duration \div 60) \div 60]

\* Mutant: the seconds are printed with %01d too.
durationDisplayUnpadded(hours, minutes, seconds) ==
    Fmt01d(hours) \o ":" \o Fmt01d(minutes) \o ":" \o Fmt01d(seconds)

\* fmt.Sprintf("%01d:%01d:%02d", hours, minutes, seconds)
durationDisplay(hours, minutes, seconds) ==
    Fmt01d(hours) \o ":" \o Fmt01d(minutes) \o ":" \o Fmt02d(seconds)

createRunOld(date, duration, distance, off) ==
    LET t == InLocal(date, off)
        seconds == decompose(duration).seconds
        minutes == decompose(duration).minutes
        hours == decompose(duration).hours
    IN  [date |-> Fmt04d(t.year) \o "-" \o Fmt02d(t.month) \o "-" \o Fmt02d(t.day),
         time |-> Fmt02d(Hour12(t.hour)) \o ":" \o Fmt02d(t.minute) \o ":" \o AmPm(t.hour),
         time_hours |-> Fmt02d(Hour12(t.hour)),
         time_minutes |-> Fmt02d(t.minute),
         time_ampm |-> AmPm(t.hour),
         distance |-> Fmt12f(meter2mile(distance)),
         duration |-> durationDisplay(hours, minutes, seconds),
         duration_hours |-> Fmt01d(hours),
         duration_minutes |-> Fmt01d(minutes),
         duration_seconds |-> Fmt02d(seconds),
         elevation_gain |-> ""]

\* part_000 adds the raw values for the report.
createRun(date, duration, distance, off) ==
    createRunOld(date, duration, distance, off)
        @@ [distance_float |-> distance, duration_int |-> duration]

(***************************************************************************)
(* uploaded: is there an event with the run's date and time?               *)
(***************************************************************************)
\* Mutant: every run counts as uploaded.
uploadedAlways(run, evs) == TRUE

\* Mutant: the loop never reports a match.
uploadedNever(run, evs) == FALSE

\* Mutant: the events are compared on the date alone.
uploadedDateOnly(run, evs) ==
    \E k \in 1..Len(evs) : evs[k].date = run.date

uploaded(run, evs) ==
    \E k \in 1..Len(evs) : evs[k] = [date |-> run.date, time |-> run.time]

(***************************************************************************)
(* The credential store: a map from the six keys to a value or Absent.     *)
(***************************************************************************)
Absent == "<absent>"

Keys == {"TAJU_CLIENT_ID", "TAJU_CLIENT_SECRET", "STRAVA_TOKEN",
         "TAJI_CSRF", "TAJI_SESSION", "TAJI_PARTICIPANT"}

TajiKeys == {"TAJI_CSRF", "TAJI_SESSION", "TAJI_PARTICIPANT"}

\* The comma-ok lookup env[k] and the plain lookup (missing gives "").
Has(m, k) == m[k] # Absent
Get(m, k) == IF Has(m, k) THEN m[k] ELSE ""

EmptyStore == [k \in Keys |-> Absent]

(***************************************************************************)
(* OAuth tokens and their JSON form (json.Marshal / json.Unmarshal).       *)
(***************************************************************************)
NilToken == [valid |-> FALSE, access_token |-> "", refresh_token |-> ""]
StoredToken == [valid |-> TRUE, access_token |-> "at0", refresh_token |-> "rt0"]
FreshToken == [valid |-> TRUE, access_token |-> "at1", refresh_token |-> "rt1"]
Tokens == {StoredToken, FreshToken}

Marshal(t) ==
    IF ~t.valid THEN "null"
    ELSE "{\"access_token\":\"" \o t.access_token
            \o "\",\"refresh_token\":\"" \o t.refresh_token \o "\"}"

\* json.Unmarshal into s.token; its error is dropped and s.token stays nil.
Unmarshal(s) ==
    IF \E t \in Tokens : Marshal(t) = s
    THEN CHOOSE t \in Tokens : Marshal(t) = s
    ELSE NilToken

(***************************************************************************)
(* The env files the operator may start with: the client credentials with  *)
(* or without each key; no token, a token as the program stores it, or one *)
(* that does not decode; any of the three Taji100 keys missing, or one of  *)
(* them there without a value.                                             *)
(***************************************************************************)
StoredValue(k) ==
    CASE k = "TAJU_CLIENT_ID" -> "1234"
      [] k = "TAJU_CLIENT_SECRET" -> "secret"
      [] k = "STRAVA_TOKEN" -> Marshal(StoredToken)
      [] k = "TAJI_CSRF" -> "csrf0"
      [] k = "TAJI_SESSION" -> "sess0"
      [] k = "TAJI_PARTICIPANT" -> "p0"

StoreWith(ks) == [k \in Keys |-> IF k \in ks THEN StoredValue(k) ELSE Absent]

\* A stored token cut short: no JSON, json.Unmarshal fails on it.
Truncated == "{\"access_token\":\"at0"

TokenTexts == {Absent, Marshal(StoredToken), Truncated}

\* The Taji100 keys of the file: each missing or with its value, or all
\* three there and one of them without a value.
TajiTexts ==
    {[k \in TajiKeys |-> IF k \in ks THEN StoredValue(k) ELSE Absent] :
        ks \in SUBSET TajiKeys}
    \cup {[k \in TajiKeys |-> IF k = e THEN "" ELSE StoredValue(k)] :
            e \in TajiKeys}

InitialStores ==
    { [k \in Keys |->
         CASE k = "STRAVA_TOKEN" -> t
           [] k \in TajiKeys -> j[k]
           [] OTHER -> IF k \in c THEN StoredValue(k) ELSE Absent] :
        c \in {{"TAJU_CLIENT_ID", "TAJU_CLIENT_SECRET"},
               {"TAJU_CLIENT_ID"}, {"TAJU_CLIENT_SECRET"}},
        t \in TokenTexts,
        j \in TajiTexts }

(***************************************************************************)
(* Strava: the activities of the athlete inside the query window.          *)
(***************************************************************************)
Instant(d, h, m, s) ==
    [year |-> 2025, month |-> 2, day |-> d, hour |-> h, minute |-> m, second |-> s]

\* Two runs starting in the same calendar minute, a ride, and a third run
\* later on the same day.
ActivityPool ==
    << [id |-> 1, type |-> "Run", start_date |-> Instant(10, 14, 30, 0),
        elapsed_time |-> 3665, distance |-> 5000],
       [id |-> 2, type |-> "Run", start_date |-> Instant(10, 14, 30, 40),
        elapsed_time |-> 5425, distance |-> 8000],
       [id |-> 3, type |-> "Ride", start_date |-> Instant(11, 7, 5, 0),
        elapsed_time |-> 1800, distance |-> 12000],
       [id |-> 4, type |-> "Run", start_date |-> Instant(10, 23, 5, 0),
        elapsed_time |-> 59, distance |-> 1609] >>

\* time.Local of the machine: minutes east of UTC.
LocalZones == {-300, 60}

\* The sub-sequence of s at the positions in idx, in order.
RECURSIVE Pick(_, _, _)
Pick(s, idx, k) ==
    IF k > Len(s) THEN <<>>
    ELSE (IF k \in idx THEN <<s[k]>> ELSE <<>>) \o Pick(s, idx, k + 1)

\* The responses the source can give for the athlete's activities s, which
\* are recorded one after the other: those recorded so far.
SubSeqs(s) == { Pick(s, 1..j, 1) : j \in 0..Len(s) }

(***************************************************************************)
(* State.                                                                  *)
(***************************************************************************)
VARIABLES
    build,            \* which revision runs: "tajuploader.go" or "part_000"
    tz,               \* time.Local, minutes east of UTC
    pc,               \* where the process is
    env,              \* u.env
    token,            \* u.strava.token
    code,             \* authStrava's code, written by the redirect handler
    taji,             \* u.taji: csrf, session, participant_id
    jar,              \* u.taji.jar: the cookies held for taji100.com
    stravaActivities, \* main's stravaActivities
    entries,          \* main's entries
    events,           \* main's events
    ri,               \* main's loop over stravaActivities: the next index
    formToken,        \* postRun's csrfmiddlewaretoken
    file,             \* the env file on disk
    fileExists,       \* whether the env file exists
    source,           \* Strava: the athlete's activities in the window
    sink,             \* Taji100: the participant's logged entries
    sinkNext,         \* Taji100: the id the next entry gets
    nonce,            \* Taji100: page loads answered in this cycle
    run,              \* history: how many times the program was started
    cycle,            \* history: sync cycles started so far
    reqs,             \* history: requests sent to Taji100 in this phase
    flows,            \* history: interactive flows of this process
    resp,             \* history: the ids of the activities Strava returned
    fetched,          \* history: the activity behind each canonical run
    fileBy,           \* history: who wrote the env file last
    loadedBy,         \* history: fileBy when this process loaded the file
    sinkOK,           \* history: Taji100 stored every POST and showed every entry
    rejected,         \* history: activities of which a POST was dropped by Taji100
    fault,            \* history: the failure the process met last, "" for none
    writes,           \* history: calls of godotenv.Write by this process
    pending,          \* authStrava: the codes of the requests accepted whose
                      \* handler has not run, a bag
    running,          \* authStrava, while the server is open: how many
                      \* handlers are before their test of code, and how many
                      \* before server.Close()
    exchanged,        \* authStrava: the value main read for conf.Exchange
    handled           \* history: the codes the handlers wrote, in order

procVars == <<pc, env, token, code, taji, jar, stravaActivities, entries,
              events, ri, formToken>>
envVars == <<build, tz, file, fileExists, source, sink, sinkNext, nonce>>
histVars == <<run, cycle, reqs, flows, resp, fetched, fileBy, loadedBy, sinkOK,
              rejected, fault, writes>>
authVars == <<pending, running, exchanged, handled>>
vars == <<procVars, envVars, histVars, authVars>>

NoTaji == [csrf |-> "", session |-> "", participant_id |-> ""]
NoJar == [csrftoken |-> Absent, sessionid |-> Absent]

\* The process as `new(uploader)` leaves it.
FreshProcess ==
    /\ pc = "loadEnvFile"
    /\ env = EmptyStore
    /\ token = NilToken
    /\ code = ""
    /\ taji = NoTaji
    /\ jar = NoJar
    /\ stravaActivities = <<>>
    /\ entries = <<>>
    /\ events = <<>>
    /\ ri = 1
    /\ formToken = ""

\* An entry the participant logged by hand for activity a.
HandEntry(a, off) ==
    [id |-> "100", date |-> createRun(a.start_date, 0, 0, off).date,
     time |-> createRun(a.start_date, 0, 0, off).time, src |-> 0]

\* Initializing never reads Strava's activities and Syncing never reads the
\* env file, so the start states vary one of the two at a time: any env
\* file with a single activity on Strava, or a complete env file with the
\* whole pool.
InitCommon ==
    /\ FreshProcess
    /\ build \in {"tajuploader.go", "part_000"}
    /\ sinkNext = 101
    /\ nonce = 0
    /\ run = 1
    /\ cycle = 0
    /\ reqs = <<>>
    /\ flows = {}
    /\ resp = <<>>
    /\ fetched = <<>>
    /\ fileBy = "operator"
    /\ loadedBy = "none"
    /\ sinkOK = TRUE
    /\ rejected = {}
    /\ fault = ""
    /\ writes = 0
    /\ pending = EmptyBag
    /\ running = [test |-> 0, close |-> 0]
    /\ exchanged = Absent
    /\ handled = <<>>

Init ==
    /\ InitCommon
    /\ tz = -300
    /\ \/ /\ \/ fileExists = TRUE /\ file \in InitialStores
             \/ fileExists = FALSE /\ file = EmptyStore
          /\ source = <<ActivityPool[1]>>
          /\ sink = <<>>
       \/ /\ fileExists = TRUE
          /\ file = StoreWith(Keys)
          /\ source = ActivityPool
          /\ sink \in {<<>>, <<HandEntry(ActivityPool[4], tz)>>}

Fatal == pc' = "fatal"   \* log.Fatal: os.Exit(1)
Panic == pc' = "panic"   \* an unrecovered run-time panic
Terminated == pc \in {"fatal", "panic"}

(***************************************************************************)
(* Initializing: initUploader.                                             *)
(***************************************************************************)
\* loadEnvFile: godotenv.Read, fatal when the file cannot be read.
loadEnvFile ==
    /\ pc = "loadEnvFile"
    /\ IF fileExists
       THEN /\ env' = file
            /\ pc' = "initStrava"
            /\ loadedBy' = fileBy
            /\ UNCHANGED fault
       ELSE /\ Fatal
            /\ fault' = "env-file"
            /\ UNCHANGED <<env, loadedBy>>
    /\ UNCHANGED <<token, code, taji, jar, stravaActivities, entries, events,
                   ri, formToken, envVars, run, cycle, reqs, flows, resp, fetched,
                   fileBy, sinkOK, rejected>>
    /\ UNCHANGED authVars
    /\ UNCHANGED writes

\* part_000 stops when a client credential is missing; tajuploader.go only
\* prints and goes on.
ClientCheckFatal ==
    /\ build = "part_000"
    /\ ~(Has(env, "TAJU_CLIENT_ID") /\ Has(env, "TAJU_CLIENT_SECRET"))

\* initStrava up to the choice between the stored token and authStrava.
initStrava ==
    /\ pc = "initStrava"
    /\ IF ClientCheckFatal
       THEN /\ Fatal
            /\ fault' = "client-credential"
            /\ UNCHANGED <<token, flows>>
       ELSE IF Has(env, "STRAVA_TOKEN")
       THEN /\ token' = Unmarshal(env["STRAVA_TOKEN"])
            /\ pc' = "initTaji"
            /\ UNCHANGED fault
            /\ UNCHANGED flows
       ELSE /\ pc' = "authStrava"
            /\ UNCHANGED fault
            /\ flows' = flows \cup {"oauth"}
            /\ UNCHANGED token
    /\ UNCHANGED <<env, code, taji, jar, stravaActivities, entries, events,
                   ri, formToken, envVars, run, cycle, reqs, resp, fetched,
                   fileBy, loadedBy, sinkOK, rejected>>
    /\ UNCHANGED authVars
    /\ UNCHANGED writes

\* The codes a request to the redirect address can carry in its query; ""
\* stands for a query without a code, as that of a browser's request for
\* the icon of the page.
Codes == {"", "authcode"}

\* A string put together from the pointer of one string and the length of
\* another by writes, or a write and a read, that overlap: not empty and
\* not a code.
Torn == "<torn>"

NoHandlers == [test |-> 0, close |-> 0]

\* authStrava, server.ListenAndServe: the server accepts a connection and
\* reads a request; net/http runs the handler of each connection in a
\* goroutine of its own.  The server accepts every request until
\* server.Close() is called.
acceptRequest ==
    /\ pc = "authStrava"
    /\ Len(handled) + BagCardinality(pending) < MaxRequests
    /\ \E c \in Codes : pending' = pending (+) SetToBag({c})
    /\ UNCHANGED <<procVars, envVars, histVars, running, exchanged, handled>>

\* The main goroutine lives; the goroutines of the handlers end with it.
Alive == ~Terminated

\* redirectHandler, the assignment: the handler of an accepted request
\* whose query holds c writes c to code, also when c is empty.  Nothing
\* orders the handlers, nor a handler and main after the server closed.
\* After the write a handler differs from another only in where it is, and
\* once the server is closed the rest of a handler (its test, its answer
\* on a closed connection, another Close) changes nothing.
Started(n) ==
    IF pc = "authStrava" THEN [running EXCEPT !.test = @ + n] ELSE running

redirectHandler ==
    /\ Alive
    /\ \E c \in BagToSet(pending) :
         /\ code' = c
         /\ pending' = pending (-) SetToBag({c})
         /\ handled' = Append(handled, c)
    /\ running' = Started(1)
    /\ UNCHANGED <<pc, env, token, taji, jar, stravaActivities, entries,
                   events, ri, formToken, envVars, histVars, exchanged>>

\* redirectHandler, the assignment, in two handlers at the same moment with
\* different values: the writes overlap and code is left torn.
redirectHandlerOverlap ==
    /\ Alive
    /\ \E c1 \in BagToSet(pending), c2 \in BagToSet(pending) :
         /\ c1 # c2
         /\ code' = Torn
         /\ pending' = pending (-) SetToBag({c1, c2})
         /\ handled' = handled \o <<c1, c2>>
    /\ running' = Started(2)
    /\ UNCHANGED <<pc, env, token, taji, jar, stravaActivities, entries,
                   events, ri, formToken, envVars, histVars, exchanged>>

\* redirectHandler, `if code != ""`: the handler reads code again, which
\* another handler may have written since; the test reads the length of
\* the string only.  With an empty code the handler returns, otherwise it
\* answers, flushes and goes on to server.Close().
redirectHandlerTest ==
    /\ pc = "authStrava"
    /\ running.test > 0
    /\ running' = IF code # ""
                  THEN [test |-> running.test - 1, close |-> running.close + 1]
                  ELSE [running EXCEPT !.test = @ - 1]
    /\ UNCHANGED <<procVars, envVars, histVars, pending, exchanged, handled>>

\* redirectHandler, server.Close(): the server stops accepting and
\* ListenAndServe returns in main; the handlers that have not written code
\* yet go on to write it.
redirectHandlerClose ==
    /\ pc = "authStrava"
    /\ running.close > 0
    /\ running' = NoHandlers
    /\ pc' = "exchange"
    /\ UNCHANGED <<env, token, code, taji, jar, stravaActivities, entries,
                   events, ri, formToken, envVars, histVars, pending,
                   exchanged, handled>>

\* ListenAndServe returns without a code when the port cannot be bound.
listenFails ==
    /\ pc = "authStrava"
    /\ pending = EmptyBag
    /\ handled = <<>>
    /\ pc' = "exchange"
    /\ UNCHANGED <<env, token, code, taji, jar, stravaActivities, entries,
                   events, ri, formToken, envVars, histVars, authVars>>

\* Mutant: the token is not put into env.
storeTokenNot(e, t) == e

\* initStrava after authStrava: the marshalled token goes into env.
storeToken(e, t) == [e EXCEPT !["STRAVA_TOKEN"] = Marshal(t)]

\* The values main's read of code can give: the value written last, or a
\* torn one when a handler is writing another value at that moment.
ReadCode ==
    {code} \cup (IF \E c \in BagToSet(pending) : c # code THEN {Torn} ELSE {})

\* main evaluates the argument of conf.Exchange, its one read of code, and
\* the call goes out; handlers go on while main waits for the answer.
exchangeCall ==
    /\ pc = "exchange"
    /\ \E v \in ReadCode : exchanged' = v
    /\ pc' = "exchanging"
    /\ UNCHANGED <<env, token, code, taji, jar, stravaActivities, entries,
                   events, ri, formToken, envVars, histVars, pending, running,
                   handled>>

\* The client id and secret that conf.Exchange sends with the code.
ClientComplete == Has(env, "TAJU_CLIENT_ID") /\ Has(env, "TAJU_CLIENT_SECRET")

\* Strava can give a token for a code sent with the client's id and secret.
Redeemable == exchanged \in Codes \ {""} /\ ClientComplete

\* conf.Exchange answers and the rest of initStrava stores the token in
\* env.  The call fails when Strava refuses what it was sent (an empty or
\* torn code, a code it does not know, a missing client id or secret) or
\* cannot be reached, and log.Fatal ends the process; a torn string may
\* also fault when its bytes are read.
exchange ==
    /\ pc = "exchanging"
    /\ \/ /\ Redeemable
          /\ token' = FreshToken
          /\ env' = storeToken(env, FreshToken)
          /\ pc' = "initTaji"
          /\ UNCHANGED fault
       \/ /\ \/ Fatal
             \/ exchanged = Torn /\ Panic
          /\ fault' = "exchange"
          /\ UNCHANGED <<token, env>>
    /\ UNCHANGED <<code, taji, jar, stravaActivities, entries, events, ri,
                   formToken, envVars, run, cycle, reqs, flows, resp, fetched,
                   fileBy, loadedBy, sinkOK, rejected, authVars>>
    /\ UNCHANGED writes

(***************************************************************************)
(* Requests sent to Taji100, as the history reqs records them.             *)
(***************************************************************************)
\* turn is the index of main's loop over the runs that sent a POST of a run
\* (0 for every other request).
Req(method, url) == [method |-> method, url |-> url, turn |-> 0]

LoginURL == "https://taji100.com/account/login/"
MainURL == "https://taji100.com"
NewLogURL == "https://taji100.com/log/new?activity=run"
ProfileURL(p) == "http://taji100.com/participants/" \o p \o "/"
EditURL(e) == "http://taji100.com/log/" \o e \o "/edit"

\* The end of initTaji: the two cookies are set from env.
SetCookies(e) ==
    [csrftoken |-> Get(e, "TAJI_CSRF"), sessionid |-> Get(e, "TAJI_SESSION")]

\* Mutant: the login runs whatever is stored.
needLoginAlways(e) == TRUE

\* Mutant: the login is skipped as soon as one value is stored.
needLoginAllMissing(e) == \A k \in TajiKeys : ~Has(e, k)

\* initTaji's test !(csrf_ok && sess_ok && part_ok).
needLogin(e) == ~(\A k \in TajiKeys : Has(e, k))

\* Mutant: the participant is not put into env.
storeTajiNoParticipant(e, t) ==
    [e EXCEPT !["TAJI_CSRF"] = t.csrf, !["TAJI_SESSION"] = t.session]

\* initTaji after loginTaji: the three values go into env.
storeTaji(e, t) ==
    [e EXCEPT !["TAJI_CSRF"] = t.csrf,
              !["TAJI_SESSION"] = t.session,
              !["TAJI_PARTICIPANT"] = t.participant_id]

\* initTaji up to the choice between the stored values and loginTaji; with
\* all three stored it runs to its end.
initTaji ==
    /\ pc = "initTaji"
    /\ taji' = [csrf |-> Get(env, "TAJI_CSRF"),
                session |-> Get(env, "TAJI_SESSION"),
                participant_id |-> Get(env, "TAJI_PARTICIPANT")]
    /\ IF ~needLogin(env)
       THEN /\ jar' = SetCookies(env)
            /\ pc' = "dumpEnvFile"
            /\ UNCHANGED flows
       ELSE /\ jar' = NoJar
            /\ pc' = "loginGet"
            /\ flows' = flows \cup {"login"}
    /\ UNCHANGED <<env, token, code, stravaActivities, entries, events, ri,
                   formToken, envVars, run, cycle, reqs, resp, fetched, fileBy,
                   loadedBy, sinkOK, rejected>>
    /\ UNCHANGED <<fault, authVars>>
    /\ UNCHANGED writes

\* loginTaji, the GET of the login page.  The site sets its csrftoken
\* cookie with the page that carries the hidden token.
loginGet ==
    /\ pc = "loginGet"
    /\ reqs' = Append(reqs, Req("GET", LoginURL))
    /\ \/ /\ Fatal                         \* transport error
          /\ fault' = "transport"
          /\ UNCHANGED jar
       \/ /\ Panic                         \* no hidden token: match[1] of nil
          /\ fault' = "login-token"
          /\ UNCHANGED jar
       \/ /\ jar' = [jar EXCEPT !.csrftoken = "csrf_anon"]
          /\ pc' = "loginPost"
          /\ UNCHANGED fault
    /\ UNCHANGED <<env, token, code, taji, stravaActivities, entries, events,
                   ri, formToken, envVars, run, cycle, flows, resp, fetched, fileBy,
                   loadedBy, sinkOK, rejected>>
    /\ UNCHANGED authVars
    /\ UNCHANGED writes

\* The cookie loop of loginTaji over the jar j.
ReadCookies(t, j) ==
    [t EXCEPT !.csrf = IF j.csrftoken # Absent THEN j.csrftoken ELSE @,
              !.session = IF j.sessionid # Absent THEN j.sessionid ELSE @]

\* loginTaji, the POST of the credentials typed by the operator.
loginPost ==
    /\ pc = "loginPost"
    /\ reqs' = Append(reqs, Req("POST", LoginURL))
    /\ \/ /\ IF build = "part_000" THEN Fatal ELSE Panic   \* transport error
          /\ fault' = "transport"
          /\ UNCHANGED <<jar, taji>>
       \/ \E j \in {[csrftoken |-> "csrf1", sessionid |-> "sess1"],
                    [jar EXCEPT !.sessionid = "sess1"], jar} :
             \* the site logs the operator in, with a new csrftoken or with
             \* the one of the login page, or it refuses the password
             /\ jar' = j
             /\ taji' = ReadCookies(taji, j)
             /\ pc' = "loginMain"
             /\ UNCHANGED fault
    /\ UNCHANGED <<env, token, code, stravaActivities, entries, events, ri,
                   formToken, envVars, run, cycle, flows, resp, fetched, fileBy,
                   loadedBy, sinkOK, rejected>>
    /\ UNCHANGED authVars
    /\ UNCHANGED writes

\* loginTaji, the GET of the site root, then the rest of initTaji.  The
\* site shows the "My Page" link to a logged-in session only.
loginMain ==
    /\ pc = "loginMain"
    /\ reqs' = Append(reqs, Req("GET", MainURL))
    /\ \/ /\ Fatal                         \* transport error
          /\ fault' = "transport"
          /\ UNCHANGED <<taji, env, jar>>
       \/ /\ Panic                         \* no "My Page" link: match[1] of nil
          /\ fault' = "nav-link"
          /\ UNCHANGED <<taji, env, jar>>
       \/ /\ jar.sessionid # Absent
          /\ taji' = [taji EXCEPT !.participant_id = "p1"]
          /\ env' = storeTaji(env, taji')
          /\ jar' = SetCookies(env')
          /\ pc' = "dumpEnvFile"
          /\ UNCHANGED fault
    /\ UNCHANGED <<token, code, stravaActivities, entries, events, ri,
                   formToken, envVars, run, cycle, flows, resp, fetched, fileBy,
                   loadedBy, sinkOK, rejected>>
    /\ UNCHANGED authVars
    /\ UNCHANGED writes

\* dumpEnvFile: godotenv.Write; a failed write is logged or dropped.
dumpEnvFile ==
    /\ pc = "dumpEnvFile"
    /\ \/ /\ file' = env
          /\ fileExists' = TRUE
          /\ fileBy' = IF flows # {} THEN "auth-init" ELSE "plain-init"
       \/ UNCHANGED <<file, fileExists, fileBy>>
    /\ pc' = "getStravaActivities"
    /\ writes' = writes + 1
    /\ UNCHANGED <<env, token, code, taji, jar, stravaActivities, entries,
                   events, ri, formToken, build, tz, source, sink, sinkNext,
                   nonce, run, cycle, reqs, flows, resp, fetched, loadedBy, sinkOK,
                   rejected>>
    /\ UNCHANGED <<fault, authVars>>

(***************************************************************************)
(* Syncing: the loop of main.                                              *)
(***************************************************************************)
\* The activities of a response that become canonical runs: part_000 keeps
\* the type "Run" only, tajuploader.go keeps them all.
Kept(b, body) ==
    IF b = "part_000" THEN SelectSeq(body, LAMBDA a : a.type = "Run") ELSE body

\* The loop of getStravaActivities over the decoded response.
RunsOf(b, body, off) ==
    [k \in 1..Len(Kept(b, body)) |->
        LET a == Kept(b, body)[k]
        IN  IF b = "part_000"
            THEN createRun(a.start_date, a.elapsed_time, a.distance, off)
            ELSE createRunOld(a.start_date, a.elapsed_time, a.distance, off)]

IdsOf(b, body) == [k \in 1..Len(Kept(b, body)) |-> Kept(b, body)[k].id]

\* getStravaActivities: the first step of a cycle.
getStravaActivities ==
    /\ pc = "getStravaActivities"
    /\ cycle < MaxCycles
    /\ cycle' = cycle + 1
    /\ reqs' = <<>>
    /\ nonce' = 0
    /\ \/ /\ ~token.valid                  \* s.token.AccessToken of a nil token
          /\ Panic
          /\ fault' = "nil-token"
          /\ UNCHANGED <<stravaActivities, resp, fetched>>
       \/ /\ token.valid                   \* transport error: resp.Body of a nil resp
          /\ Panic
          /\ fault' = "fetch-transport"
          /\ UNCHANGED <<stravaActivities, resp, fetched>>
       \/ /\ token.valid                   \* the body is no JSON array: nil is returned
          /\ stravaActivities' = <<>>
          /\ resp' = <<>>
          /\ fetched' = <<>>
          /\ fault' = "fetch-decode"
          /\ pc' = "getTajiEntries"
       \/ /\ token.valid
          /\ \E body \in SubSeqs(source) :
               /\ stravaActivities' = RunsOf(build, body, tz)
               /\ resp' = [k \in 1..Len(body) |-> body[k].id]
               /\ fetched' = IdsOf(build, body)
          /\ fault' = ""
          /\ pc' = "getTajiEntries"
    /\ UNCHANGED <<env, token, code, taji, jar, entries, events, ri, formToken,
                   build, tz, file, fileExists, source, sink, sinkNext, run,
                   flows, fileBy, loadedBy, sinkOK, rejected>>
    /\ UNCHANGED authVars
    /\ UNCHANGED writes

SinkIds == [k \in 1..Len(sink) |-> sink[k].id]

\* getTajiEntries: the edit links of the profile page.  A page without any
\* link (a logged-out page as well as an empty log) gives no entry.
getTajiEntries ==
    /\ pc = "getTajiEntries"
    /\ reqs' = Append(reqs, Req("GET", ProfileURL(taji.participant_id)))
    /\ \/ /\ Fatal                         \* transport error
          /\ fault' = "transport"
          /\ UNCHANGED <<entries, events, ri, sinkOK>>
       \/ \E shown \in {SinkIds, <<>>} :
             /\ entries' = shown
             /\ events' = <<>>
             /\ ri' = 1
             /\ UNCHANGED fault
             /\ sinkOK' = (sinkOK /\ shown = SinkIds)
             /\ pc' = IF shown = <<>> THEN "runs" ELSE "getTajiEvents"
    /\ UNCHANGED <<env, token, code, taji, jar, stravaActivities, formToken,
                   envVars, run, cycle, flows, resp, fetched, fileBy, loadedBy,
                   rejected>>
    /\ UNCHANGED authVars
    /\ UNCHANGED writes

SinkEntry(id) == sink[CHOOSE k \in 1..Len(sink) : sink[k].id = id]

\* One turn of the loop of getTajiEvents: the edit page of the next entry.
getTajiEvents ==
    /\ pc = "getTajiEvents"
    /\ LET entry == entries[Len(events) + 1]
       IN  /\ reqs' = Append(reqs, Req("GET", EditURL(entry)))
           /\ \/ /\ Fatal                  \* transport error
                 /\ fault' = "transport"
                 /\ UNCHANGED events
              \/ /\ Panic                  \* no date or time field: date[1] of nil
                 /\ fault' = "entry-field"
                 /\ UNCHANGED events
              \/ /\ events' = Append(events, [date |-> SinkEntry(entry).date,
                                              time |-> SinkEntry(entry).time])
                 /\ UNCHANGED fault
                 /\ pc' = IF Len(events') = Len(entries) THEN "runs"
                          ELSE "getTajiEvents"
    /\ UNCHANGED <<env, token, code, taji, jar, stravaActivities, entries, ri,
                   formToken, envVars, run, cycle, flows, resp, fetched, fileBy,
                   loadedBy, sinkOK, rejected>>
    /\ UNCHANGED authVars
    /\ UNCHANGED writes

\* main's loop, a run that is uploaded already: nothing is sent.
skipRun ==
    /\ pc = "runs"
    /\ ri <= Len(stravaActivities)
    /\ uploaded(stravaActivities[ri], events)
    /\ ri' = ri + 1
    /\ UNCHANGED <<pc, env, token, code, taji, jar, stravaActivities, entries,
                   events, formToken, envVars, histVars>>
    /\ UNCHANGED authVars

\* Mutant: the form is sent with the stored csrf value instead of the
\* hidden token of the page.
postRunGetStoredToken ==
    /\ pc = "runs"
    /\ ri <= Len(stravaActivities)
    /\ ~uploaded(stravaActivities[ri], events)
    /\ reqs' = Append(reqs, Req("GET", NewLogURL))
    /\ formToken' = taji.csrf
    /\ nonce' = nonce + 1
    /\ pc' = "postRun"
    /\ UNCHANGED <<env, token, code, taji, jar, stravaActivities, entries,
                   events, ri, build, tz, file, fileExists, source, sink,
                   sinkNext, run, cycle, flows, resp, fetched, fileBy, loadedBy,
                   sinkOK, rejected, fault, authVars>>
    /\ UNCHANGED writes

\* postRun, the GET of the form page: the site answers every page load
\* with a new hidden token.
postRunGet ==
    /\ pc = "runs"
    /\ ri <= Len(stravaActivities)
    /\ ~uploaded(stravaActivities[ri], events)
    /\ reqs' = Append(reqs, Req("GET", NewLogURL))
    /\ \/ /\ Fatal                         \* transport error
          /\ fault' = "transport"
          /\ UNCHANGED <<formToken, nonce>>
       \/ /\ Panic                         \* no hidden token: match[1] of nil
          /\ fault' = "form-token"
          /\ UNCHANGED <<formToken, nonce>>
       \/ /\ formToken' = "form" \o Dec(nonce + 1)
          /\ nonce' = nonce + 1
          /\ UNCHANGED fault
          /\ pc' = "postRun"
    /\ UNCHANGED <<env, token, code, taji, jar, stravaActivities, entries,
                   events, ri, build, tz, file, fileExists, source, sink,
                   sinkNext, run, cycle, flows, resp, fetched, fileBy, loadedBy,
                   sinkOK, rejected>>
    /\ UNCHANGED authVars
    /\ UNCHANGED writes

\* The url.Values of postRun.
FormOf(r, tok) ==
    [csrfmiddlewaretoken |-> tok, activity |-> "run", date |-> r.date,
     time |-> r.time, time_hours |-> r.time_hours,
     time_minutes |-> r.time_minutes, time_ampm |-> r.time_ampm,
     distance |-> r.distance, duration |-> r.duration,
     duration_hours |-> r.duration_hours,
     duration_minutes |-> r.duration_minutes,
     duration_seconds |-> r.duration_seconds,
     elevation_gain |-> r.elevation_gain]

\* Mutant: a run that was sent is added to the events, so that a later run
\* of the same minute is skipped in the same cycle.
postRunPostRemembers ==
    /\ pc = "postRun"
    /\ LET r == stravaActivities[ri]
       IN  /\ reqs' = Append(reqs, [method |-> "POST", url |-> NewLogURL,
                                    turn |-> ri,
                                    form |-> FormOf(r, formToken)])
           /\ \/ /\ sink' = Append(sink, [id |-> Dec(sinkNext), date |-> r.date,
                                          time |-> r.time, src |-> fetched[ri]])
                 /\ sinkNext' = sinkNext + 1
                 /\ events' = Append(events, [date |-> r.date, time |-> r.time])
                 /\ ri' = ri + 1
                 /\ pc' = "runs"
                 /\ UNCHANGED fault
                 /\ UNCHANGED <<sinkOK, rejected>>
              \/ /\ sinkOK' = FALSE
                 /\ rejected' = rejected \cup {fetched[ri]}
                 /\ ri' = ri + 1
                 /\ pc' = "runs"
                 /\ UNCHANGED fault
                 /\ events' = Append(events, [date |-> r.date, time |-> r.time])
                 /\ UNCHANGED <<sink, sinkNext>>
              \/ /\ Panic
                 /\ fault' = "post-transport"
                 /\ UNCHANGED <<sink, sinkNext, ri, sinkOK, rejected, events>>
    /\ formToken' = ""
    /\ UNCHANGED <<env, token, code, taji, jar, stravaActivities, entries,
                   build, tz, file, fileExists, source,
                   nonce, run, cycle, flows, resp, fetched, fileBy, loadedBy>>
    /\ UNCHANGED authVars
    /\ UNCHANGED writes

\* postRun, the POST of the form.  The site stores the entry, or drops it
\* without a sign, or the transport fails: res is nil and res.Body panics.
postRunPost ==
    /\ pc = "postRun"
    /\ LET r == stravaActivities[ri]
       IN  /\ reqs' = Append(reqs, [method |-> "POST", url |-> NewLogURL,
                                    turn |-> ri,
                                    form |-> FormOf(r, formToken)])
           /\ \/ /\ sink' = Append(sink, [id |-> Dec(sinkNext), date |-> r.date,
                                          time |-> r.time, src |-> fetched[ri]])
                 /\ sinkNext' = sinkNext + 1
                 /\ ri' = ri + 1
                 /\ pc' = "runs"
                 /\ UNCHANGED fault
                 /\ UNCHANGED <<sinkOK, rejected>>
              \/ /\ sinkOK' = FALSE
                 /\ rejected' = rejected \cup {fetched[ri]}
                 /\ ri' = ri + 1
                 /\ pc' = "runs"
                 /\ UNCHANGED fault
                 /\ UNCHANGED <<sink, sinkNext>>
              \/ /\ Panic
                 /\ fault' = "post-transport"
                 /\ UNCHANGED <<sink, sinkNext, ri, sinkOK, rejected>>
    /\ formToken' = ""
    /\ UNCHANGED <<env, token, code, taji, jar, stravaActivities, entries,
                   events, build, tz, file, fileExists, source,
                   nonce, run, cycle, flows, resp, fetched, fileBy, loadedBy>>
    /\ UNCHANGED authVars
    /\ UNCHANGED writes

\* Mutant: the loop over the runs is left before its last run.
runsDoneEarly ==
    /\ pc = "runs"
    /\ pc' = IF build = "part_000" THEN "updateOutput" ELSE "sleep"
    /\ UNCHANGED <<env, token, code, taji, jar, stravaActivities, entries,
                   events, ri, formToken, envVars, histVars>>
    /\ UNCHANGED authVars

\* The end of main's loop over the runs: part_000 reports, tajuploader.go
\* goes to sleep at once.
runsDone ==
    /\ pc = "runs"
    /\ ri > Len(stravaActivities)
    /\ pc' = IF build = "part_000" THEN "updateOutput" ELSE "sleep"
    /\ UNCHANGED <<env, token, code, taji, jar, stravaActivities, entries,
                   events, ri, formToken, envVars, histVars>>
    /\ UNCHANGED authVars

\* updateOutput prints the summary; no state of the program changes.
updateOutput ==
    /\ pc = "updateOutput"
    /\ pc' = "sleep"
    /\ UNCHANGED <<env, token, code, taji, jar, stravaActivities, entries,
                   events, ri, formToken, envVars, histVars>>
    /\ UNCHANGED authVars

\* time.Sleep(12 * time.Hour) returns and the loop starts over: the
\* variables of the iteration that ended are gone.
sleep ==
    /\ pc = "sleep"
    /\ cycle < MaxCycles
    /\ pc' = "getStravaActivities"
    /\ stravaActivities' = <<>>
    /\ entries' = <<>>
    /\ events' = <<>>
    /\ ri' = 1
    /\ reqs' = <<>>
    /\ resp' = <<>>
    /\ fetched' = <<>>
    /\ nonce' = 0
    /\ fault' = ""
    /\ UNCHANGED <<env, token, code, taji, jar, formToken, build, tz, file,
                   fileExists, source, sink, sinkNext, run, cycle, flows,
                   fileBy, loadedBy, sinkOK, rejected>>
    /\ UNCHANGED authVars
    /\ UNCHANGED writes

(***************************************************************************)
(* The operator.                                                           *)
(***************************************************************************)
\* The operator starts the program again after it stopped, or kills it in
\* its sleep and starts it again.
restart ==
    /\ pc \in {"sleep", "fatal", "panic"}
    /\ run < MaxRuns
    /\ cycle < MaxCycles
    /\ run' = run + 1
    /\ pc' = "loadEnvFile"
    /\ env' = EmptyStore
    /\ token' = NilToken
    /\ code' = ""
    /\ taji' = NoTaji
    /\ jar' = NoJar
    /\ stravaActivities' = <<>>
    /\ entries' = <<>>
    /\ events' = <<>>
    /\ ri' = 1
    /\ formToken' = ""
    /\ reqs' = <<>>
    /\ flows' = {}
    /\ resp' = <<>>
    /\ fetched' = <<>>
    /\ loadedBy' = "none"
    /\ fault' = ""
    /\ writes' = 0
    /\ pending' = EmptyBag
    /\ running' = NoHandlers
    /\ exchanged' = Absent
    /\ handled' = <<>>
    /\ UNCHANGED <<envVars, cycle, fileBy, sinkOK, rejected>>

Next ==
    \/ loadEnvFile \/ initStrava \/ acceptRequest \/ redirectHandler
    \/ redirectHandlerOverlap \/ redirectHandlerTest \/ redirectHandlerClose
    \/ listenFails \/ exchangeCall \/ exchange
    \/ initTaji \/ loginGet \/ loginPost \/ loginMain \/ dumpEnvFile
    \/ getStravaActivities \/ getTajiEntries \/ getTajiEvents
    \/ skipRun \/ postRunGet \/ postRunPost \/ runsDone \/ updateOutput
    \/ sleep \/ restart

Spec == Init /\ [][Next]_vars

(***************************************************************************)
(* createRun on its own: the program started from a complete env file,     *)
(* with one activity on Strava whose elapsed time sweeps 0..MaxElapsed, or  *)
(* whose start instant, distance, type and zone range over small sets.     *)
(* The steps are those of a start without interactive flows and of the    *)
(* first cycle over an empty log: the fetch that builds the canonical run  *)
(* and the submission of that run.                                         *)
(***************************************************************************)
RunInstants ==
    {Instant(10, 14, 30, 0), Instant(1, 0, 10, 0), Instant(28, 23, 30, 59),
     Instant(10, 12, 0, 0), Instant(10, 5, 0, 0), Instant(10, 17, 9, 7)}

RunDistances == {0, 5000, 1609, 16093, 42195}

InitRun ==
    /\ InitCommon
    /\ fileExists = TRUE
    /\ file = StoreWith(Keys)
    /\ sink = <<>>
    /\ \/ /\ tz = -300
          /\ \E e \in 0..MaxElapsed :
               source = <<[id |-> 1, type |-> "Run",
                           start_date |-> Instant(10, 14, 30, 0),
                           elapsed_time |-> e, distance |-> 5000]>>
       \/ /\ tz \in LocalZones
          /\ \E e \in {3665, 5425}, at \in RunInstants, m \in RunDistances,
                ty \in {"Run", "Ride"} :
               source = <<[id |-> 1, type |-> ty, start_date |-> at,
                           elapsed_time |-> e, distance |-> m]>>

NextRun ==
    \/ loadEnvFile \/ initStrava \/ initTaji \/ dumpEnvFile
    \/ getStravaActivities \/ getTajiEntries \/ postRunGet \/ postRunPost
    \/ runsDone

SpecRun == InitRun /\ [][NextRun]_vars

(***************************************************************************)
(* Vocabulary of the properties.                                           *)
(***************************************************************************)
\* The POSTs to the new-log endpoint sent so far in this cycle.
Posts == SelectSeq(reqs, LAMBDA q : q.method = "POST" /\ q.url = NewLogURL)

\* How many POSTs of this cycle were sent for the k-th fetched run.
PostsOfTurn(k) ==
    Cardinality({n \in 1..Len(reqs) : reqs[n].method = "POST" /\ reqs[n].turn = k})

\* An event with the run's (date, time) is in the list.
Logged(r, evs) ==
    \E k \in 1..Len(evs) : evs[k].date = r.date /\ evs[k].time = r.time

\* The event list of the cycle is complete: the loop over the runs began.
Reconciled == pc \in {"runs", "postRun", "updateOutput", "sleep"}

\* The loop over the runs of the cycle ended.
CycleDone == pc \in {"updateOutput", "sleep"}

\* The fields of a run that the form carries.
FormFields ==
    {"date", "time", "time_hours", "time_minutes", "time_ampm", "distance",
     "duration", "duration_hours", "duration_minutes", "duration_seconds",
     "elevation_gain"}

\* The runs of the cycle without a logged event, in the order fetched.
Missing == SelectSeq(stravaActivities, LAMBDA r : ~Logged(r, events))

(***************************************************************************)
(* C1: in every cycle, a fetched run for which the event list scraped in   *)
(* that cycle holds an event with the same date and time is not POSTed in  *)
(* that cycle.                                                             *)
(***************************************************************************)
C1_NoPostForLoggedRun ==
    Reconciled =>
        \A k \in 1..Len(stravaActivities) :
            Logged(stravaActivities[k], events) => PostsOfTurn(k) = 0

\* One fetched run, one matching event, a finished cycle without any POST.
C1_Witness ==
    /\ CycleDone
    /\ Len(stravaActivities) = 1
    /\ Len(events) = 1
    /\ Logged(stravaActivities[1], events)
    /\ Posts = <<>>

(***************************************************************************)
(* C2: while Taji100 stores every POST and shows every stored entry with   *)
(* the strings submitted, it never holds two entries made by this program  *)
(* for the same Strava activity, over all cycles and restarts.             *)
(***************************************************************************)
MadeFor(id) == {k \in 1..Len(sink) : sink[k].src = id}

C2_NoDuplicateAcrossCycles ==
    sinkOK => \A k \in 1..Len(source) : Cardinality(MadeFor(source[k].id)) <= 1

\* A later cycle ended in which a run posted in an earlier cycle was
\* fetched again and nothing was sent.
C2_Witness ==
    /\ CycleDone
    /\ cycle = 2
    /\ sinkOK
    /\ fetched # <<>>
    /\ \A k \in 1..Len(fetched) : MadeFor(fetched[k]) # {}
    /\ Posts = <<>>

(***************************************************************************)
(* C3: when the loop over the runs has ended, the POSTs of the cycle are,  *)
(* in order, exactly the fetched runs without a logged event, each sent    *)
(* once with its fields as fetched; with no event at all every fetched run *)
(* is sent; while the loop runs the POSTs are a prefix of them.            *)
(***************************************************************************)
SameFields(form, r) == \A f \in FormFields : form[f] = r[f]

C3_PostsAreTheMissingRuns ==
    Reconciled =>
        /\ Len(Posts) <= Len(Missing)
        /\ \A n \in 1..Len(Posts) : SameFields(Posts[n].form, Missing[n])
        /\ \A n \in 1..Len(reqs) : reqs[n].method = "POST" => reqs[n].url = NewLogURL
        /\ CycleDone => Len(Posts) = Len(Missing)
        /\ (CycleDone /\ events = <<>>) => Len(Posts) = Len(stravaActivities)

\* A finished cycle that fetched three runs, found one of them logged and
\* sent the other two.
C3_Witness ==
    /\ CycleDone
    /\ Len(stravaActivities) = 3
    /\ Len(Missing) = 2
    /\ Len(Posts) = 2
    /\ Posts[1].form.duration # Posts[2].form.duration

(***************************************************************************)
(* C4, as claimed: of two distinct fetched runs with equal date and time   *)
(* one is dropped, so no two POSTs of a cycle carry the same (date, time), *)
(* and Taji100, while it stores every POST, never holds two entries made   *)
(* by this program with the same (date, time).                             *)
(***************************************************************************)
SameKey(a, b) == a.date = b.date /\ a.time = b.time

C4_AtMostOnePostPerKey ==
    /\ \A m, n \in 1..Len(Posts) :
          m # n => ~SameKey(Posts[m].form, Posts[n].form)
    /\ sinkOK =>
          \A m, n \in 1..Len(sink) :
              (m # n /\ sink[m].src # 0 /\ sink[n].src # 0)
                  => ~SameKey(sink[m], sink[n])

(***************************************************************************)
(* C4, amended: two distinct fetched runs with equal date and time are     *)
(* treated alike.  When the loop over the runs has ended, neither was      *)
(* POSTed if the scraped events hold that (date, time), and both were      *)
(* POSTed, once each, if the scraped events do not.                        *)
(***************************************************************************)
C4_TwinsBothOrNeither ==
    CycleDone =>
        \A i, j \in 1..Len(stravaActivities) :
            (i < j /\ SameKey(stravaActivities[i], stravaActivities[j])) =>
                IF Logged(stravaActivities[i], events)
                THEN PostsOfTurn(i) = 0 /\ PostsOfTurn(j) = 0
                ELSE PostsOfTurn(i) = 1 /\ PostsOfTurn(j) = 1

\* A finished cycle that fetched the two runs of the same minute while the
\* site showed no entry, and sent both.
C4_Witness ==
    /\ CycleDone
    /\ events = <<>>
    /\ \E i, j \in 1..Len(stravaActivities) :
          /\ i < j
          /\ fetched[i] # fetched[j]
          /\ SameKey(stravaActivities[i], stravaActivities[j])
          /\ PostsOfTurn(i) = 1
          /\ PostsOfTurn(j) = 1

(***************************************************************************)
(* C5: a run of which Taji100 dropped a POST, and of which the scraped     *)
(* events of a cycle still show no (date, time), is POSTed once in every   *)
(* cycle that fetches it and runs to the end of its loop: nothing          *)
(* remembers the earlier attempts.                                         *)
(***************************************************************************)
C5_RejectedRunIsRetried ==
    CycleDone =>
        \A k \in 1..Len(fetched) :
            (fetched[k] \in rejected /\ ~Logged(stravaActivities[k], events))
                => PostsOfTurn(k) = 1

\* The form was fetched to POST once more a run that Taji100 dropped in an
\* earlier cycle and of which it shows no entry.
C5_Witness ==
    /\ pc = "postRun"
    /\ fetched[ri] \in rejected
    /\ \A k \in 1..Len(sink) : ~SameKey(sink[k], stravaActivities[ri])

(***************************************************************************)
(* C6, as claimed for both revisions: the canonical runs of a cycle are    *)
(* those of the returned activities whose type is "Run", in their order,   *)
(* and no entry is made on Taji100 for an activity of another type.        *)
(***************************************************************************)
ActivityOf(id) == source[CHOOSE k \in 1..Len(source) : source[k].id = id]

RunIds(ids) == SelectSeq(ids, LAMBDA id : ActivityOf(id).type = "Run")

C6_OnlyRunsBecomeRuns ==
    /\ fetched = RunIds(resp)
    /\ Len(stravaActivities) = Len(RunIds(resp))
    /\ \A k \in 1..Len(sink) :
          sink[k].src # 0 => ActivityOf(sink[k].src).type = "Run"

\* The same for the revision part_000 alone, which filters on the type.
C6_Part000OnlyRuns == build = "part_000" => C6_OnlyRunsBecomeRuns

(***************************************************************************)
(* C7: createRun's seconds are elapsed mod 60, its minutes elapsed div 60  *)
(* (the total minutes), its hours minutes div 60; the hours and minutes    *)
(* are printed without padding, the seconds with exactly two digits, and   *)
(* the display is H:M:S; 5425 seconds give 1, 90, 25 and "1:90:25".        *)
(***************************************************************************)
TwoDigits(n) == Digit(n \div 10) \o Digit(n % 10)

C7_DurationDecomposition ==
    Len(stravaActivities) = 1 =>
        LET e == ActivityOf(fetched[1]).elapsed_time
            r == stravaActivities[1]
        IN  /\ r.duration_seconds = TwoDigits(e % 60)
            /\ r.duration_minutes = Dec(e \div 60)
            /\ r.duration_hours = Dec((e \div 60) \div 60)
            /\ r.duration = r.duration_hours \o ":" \o r.duration_minutes
                               \o ":" \o r.duration_seconds
            /\ e = 5425 =>
                  /\ r.duration_hours = "1"
                  /\ r.duration_minutes = "90"
                  /\ r.duration_seconds = "25"
                  /\ r.duration = "1:90:25"

\* The run built from an activity of 5425 seconds.
C7_Witness ==
    /\ Len(stravaActivities) = 1
    /\ ActivityOf(fetched[1]).elapsed_time = 5425
    /\ stravaActivities[1].duration = "1:90:25"

(***************************************************************************)
(* C8, as claimed: a cycle that fetched the single Run of 3665 seconds     *)
(* while Taji100 showed no event ends with exactly one POST, whose         *)
(* duration is "1:61:5", duration_hours "1" and duration_minutes "61".     *)
(***************************************************************************)
SingleRunCycle ==
    /\ CycleDone
    /\ resp = <<1>>
    /\ ActivityOf(1).type = "Run"
    /\ ActivityOf(1).elapsed_time = 3665
    /\ events = <<>>

C8_OnePostUnpaddedSeconds ==
    SingleRunCycle =>
        /\ Len(Posts) = 1
        /\ Posts[1].form.duration = "1:61:5"
        /\ Posts[1].form.duration_hours = "1"
        /\ Posts[1].form.duration_minutes = "61"

(***************************************************************************)
(* C8, amended: the same cycle ends with exactly one POST, whose duration  *)
(* is "1:61:05" (the seconds carry two digits), duration_hours "1",        *)
(* duration_minutes "61" and duration_seconds "05".                        *)
(***************************************************************************)
C8_OnePostPaddedSeconds ==
    SingleRunCycle =>
        /\ Len(Posts) = 1
        /\ Posts[1].form.duration = "1:61:05"
        /\ Posts[1].form.duration_hours = "1"
        /\ Posts[1].form.duration_minutes = "61"
        /\ Posts[1].form.duration_seconds = "05"
        /\ Posts[1].form.activity = "run"

\* Such a cycle, with its one POST.
C8_Witness ==
    /\ SingleRunCycle
    /\ Len(Posts) = 1
    /\ PostsOfTurn(1) = 1

(***************************************************************************)
(* C9: an env file written by an initialization that ran an interactive    *)
(* flow holds the OAuth token and the three Taji100 values, and a process  *)
(* that loaded such a file runs no interactive flow, sends nothing to      *)
(* Taji100 while it initializes, and has, once initStrava is done, the     *)
(* token that the file's text decodes to: the token of the OAuth flow when *)
(* that flow wrote the file.                                               *)
(***************************************************************************)
FourKeys == {"STRAVA_TOKEN"} \cup TajiKeys

C9_CredentialRoundTrip ==
    /\ fileBy = "auth-init" => \A k \in FourKeys : Has(file, k)
    /\ loadedBy = "auth-init" =>
          /\ flows = {}
          /\ pc \in {"initStrava", "initTaji", "dumpEnvFile"} => reqs = <<>>
          /\ pc \in {"initTaji", "dumpEnvFile", "getStravaActivities"} =>
                /\ token = Unmarshal(file["STRAVA_TOKEN"])
                /\ file["STRAVA_TOKEN"] # Truncated => token.valid

\* The second start of the program, initialized from the file that the
\* first start wrote after its interactive flows, about to fetch.
C9_Witness ==
    /\ run = 2
    /\ loadedBy = "auth-init"
    /\ pc = "getStravaActivities"
    /\ flows = {}
    /\ token = FreshToken
    /\ taji.participant_id = "p1"

(***************************************************************************)
(* C10: when initTaji is done: if the env file held all three Taji100      *)
(* values, no request went to Taji100, no login ran, and the stored values *)
(* are the session and the two cookies; if one was missing, the login ran  *)
(* and all three entries of env, those that were stored too, hold the      *)
(* values of that login, which are also the cookies.                       *)
(***************************************************************************)
C10_SinkAuthentication ==
    pc = "dumpEnvFile" =>
        IF \A k \in TajiKeys : Has(file, k)
        THEN /\ reqs = <<>>
             /\ "login" \notin flows
             /\ \A k \in TajiKeys : env[k] = file[k]
             /\ jar = [csrftoken |-> file["TAJI_CSRF"],
                       sessionid |-> file["TAJI_SESSION"]]
             /\ taji = [csrf |-> file["TAJI_CSRF"],
                        session |-> file["TAJI_SESSION"],
                        participant_id |-> file["TAJI_PARTICIPANT"]]
        ELSE /\ "login" \in flows
             /\ reqs = <<Req("GET", LoginURL), Req("POST", LoginURL),
                         Req("GET", MainURL)>>
             /\ env["TAJI_CSRF"] \in {"csrf1", "csrf_anon"}
             /\ env["TAJI_SESSION"] = "sess1"
             /\ env["TAJI_PARTICIPANT"] = "p1"
             /\ jar = [csrftoken |-> env["TAJI_CSRF"],
                       sessionid |-> env["TAJI_SESSION"]]

\* initTaji is done after a login that ran because the participant was
\* missing, and the stored csrf and session values were replaced.
C10_Witness ==
    /\ pc = "dumpEnvFile"
    /\ file["TAJI_CSRF"] = "csrf0"
    /\ file["TAJI_SESSION"] = "sess0"
    /\ ~Has(file, "TAJI_PARTICIPANT")
    /\ env["TAJI_CSRF"] = "csrf1"
    /\ env["TAJI_SESSION"] = "sess1"
    /\ env["TAJI_PARTICIPANT"] = "p1"

\* initTaji is done with the three stored values and without a request.
C10_WitnessStored ==
    /\ pc = "dumpEnvFile"
    /\ \A k \in TajiKeys : Has(file, k)
    /\ reqs = <<>>
    /\ jar = [csrftoken |-> "csrf0", sessionid |-> "sess0"]

(***************************************************************************)
(* C11: when initTaji is done: a process that loaded a token but not all   *)
(* three Taji100 values ran the login only, no redirect request was        *)
(* handled, the token entry of env is the stored one and the token is what *)
(* that entry decodes to; a process that                                   *)
(* loaded the three Taji100 values but no token ran the OAuth flow only,   *)
(* sent nothing to Taji100, and the three entries are the stored ones.     *)
(***************************************************************************)
AllTajiStored == \A k \in TajiKeys : Has(file, k)

C11_IndependentCredentials ==
    pc = "dumpEnvFile" =>
        /\ (Has(file, "STRAVA_TOKEN") /\ ~AllTajiStored) =>
              /\ flows = {"login"}
              /\ handled = <<>>
              /\ code = ""
              /\ env["STRAVA_TOKEN"] = file["STRAVA_TOKEN"]
              /\ token = Unmarshal(file["STRAVA_TOKEN"])
              /\ file["STRAVA_TOKEN"] = Marshal(StoredToken) => token = StoredToken
        /\ (~Has(file, "STRAVA_TOKEN") /\ AllTajiStored) =>
              /\ flows = {"oauth"}
              /\ reqs = <<>>
              /\ \A k \in TajiKeys : env[k] = file[k]
              /\ jar = [csrftoken |-> file["TAJI_CSRF"],
                        sessionid |-> file["TAJI_SESSION"]]

\* The login ran for a missing session while the token was stored.
C11_Witness ==
    /\ pc = "dumpEnvFile"
    /\ Has(file, "STRAVA_TOKEN")
    /\ Has(file, "TAJI_CSRF")
    /\ ~Has(file, "TAJI_SESSION")
    /\ flows = {"login"}
    /\ env["TAJI_SESSION"] = "sess1"
    /\ token = StoredToken

\* The OAuth flow ran for a missing token while the three values were stored.
C11_WitnessToken ==
    /\ pc = "dumpEnvFile"
    /\ ~Has(file, "STRAVA_TOKEN")
    /\ AllTajiStored
    /\ flows = {"oauth"}
    /\ token = FreshToken
    /\ env["TAJI_CSRF"] = "csrf0"

(***************************************************************************)
(* C12: a process that loaded an env file without the client id or without *)
(* the client secret stops in initStrava: it runs no interactive flow,     *)
(* sends nothing to Taji100, leaves the env file as it loaded it and       *)
(* starts no cycle.  Stated for both revisions.                            *)
(***************************************************************************)
ClientMissing ==
    /\ pc # "loadEnvFile"
    /\ ~(Has(env, "TAJU_CLIENT_ID") /\ Has(env, "TAJU_CLIENT_SECRET"))

StoppedAtClientCheck ==
    /\ pc \in {"initStrava", "fatal"}
    /\ flows = {}
    /\ handled = <<>>
    /\ reqs = <<>>
    /\ fileBy = loadedBy \/ loadedBy = "none"

C12_MissingClientIsFatal == ClientMissing => StoppedAtClientCheck

\* The same for the revision part_000 alone.
C12_Part000MissingClientIsFatal ==
    (build = "part_000" /\ ClientMissing) => StoppedAtClientCheck

\* part_000 stopped at the client check of a file without the client id.
C12_Part000Stopped ==
    /\ build = "part_000"
    /\ pc = "fatal"
    /\ fault = "client-credential"
    /\ ~Has(env, "TAJU_CLIENT_ID")

(***************************************************************************)
(* C13: after a failure of the activities request, a transport error or a  *)
(* body that does not decode, the process still runs, the run list of the  *)
(* cycle is empty and the cycle sends no POST.                             *)
(***************************************************************************)
C13_FetchFailureIsTransient ==
    fault \in {"fetch-transport", "fetch-decode"} =>
        /\ ~Terminated
        /\ stravaActivities = <<>>
        /\ Posts = <<>>

\* The half of it that is about a body that does not decode.
C13_DecodeFailureIsTransient ==
    fault = "fetch-decode" =>
        /\ pc \in {"getTajiEntries", "getTajiEvents", "runs", "updateOutput",
                   "sleep"}
        /\ stravaActivities = <<>>
        /\ Posts = <<>>

\* A cycle whose fetch did not decode reached its sleep, over a sink that
\* holds an entry.
C13_DecodeFailureSleeps ==
    /\ fault = "fetch-decode"
    /\ pc = "sleep"
    /\ Len(events) = 1

(***************************************************************************)
(* C14: after a transport error of the POST of a run the process still     *)
(* runs: it is in the loop over the runs of the same cycle, past that run, *)
(* or at the report or the sleep that follow the loop.                     *)
(***************************************************************************)
C14_PostFailureIsTransient ==
    fault = "post-transport" =>
        /\ pc \in {"runs", "postRun", "updateOutput", "sleep"}
        /\ ri > 1

(***************************************************************************)
(* C15: in a process whose redirect handler wrote a code, that request is  *)
(* the only one with a code a handler ran for, it is the last request a    *)
(* handler ran for, and the exchange was made with its code.               *)
(***************************************************************************)
Coded == {i \in 1..Len(handled) : handled[i] # ""}

FirstCode == handled[CHOOSE i \in Coded : \A j \in Coded : i <= j]

AuthDone ==
    pc \notin {"loadEnvFile", "initStrava", "authStrava", "exchange", "exchanging"}

NoneInFlight == pending = EmptyBag /\ running = NoHandlers

C15_OneRequestServed ==
    Coded # {} =>
        /\ Cardinality(Coded) = 1
        /\ handled[Len(handled)] = FirstCode
        /\ exchanged # Absent => exchanged = FirstCode

\* What the server does guarantee: it closes only after a handler wrote a
\* code, and main reads code only after the server closed or failed to
\* listen.
C15_ClosesOnlyAfterCode ==
    /\ (pc # "authStrava" /\ handled # <<>>) => Coded # {}
    /\ (exchanged # Absent) =>
          pc \notin {"loadEnvFile", "initStrava", "authStrava", "exchange"}
    /\ pc \in {"loadEnvFile", "initStrava"} => handled = <<>> /\ NoneInFlight

\* The handler ran for a request without a code and then for one with a
\* code, one after the other, and the exchange was made with that code.
C15_SequentialServed ==
    /\ handled = <<"", "authcode">>
    /\ pc = "initTaji"
    /\ code = "authcode"
    /\ exchanged = "authcode"
    /\ NoneInFlight
    /\ token = FreshToken

\* A code was received and both handlers returned, yet the server listens:
\* the handler of the request with the code tested code after the other
\* handler had emptied it, and did not close the server.
C15_CodeReceivedStillListening ==
    /\ pc = "authStrava"
    /\ handled = <<"authcode", "">>
    /\ code = ""
    /\ NoneInFlight

\* A second request with a code is accepted after the handler of the first
\* wrote code and passed its test, before it closed the server.
C15_AcceptedBeforeClose ==
    /\ pc = "authStrava"
    /\ handled = <<"authcode">>
    /\ running = [test |-> 0, close |-> 1]
    /\ pending = SetToBag({"authcode"})

\* The handlers of two requests with a code are both about to close the
\* server.
C15_TwoCodesServed ==
    /\ pc = "authStrava"
    /\ handled = <<"authcode", "authcode">>
    /\ running = [test |-> 0, close |-> 2]

(***************************************************************************)
(* C16: a scraped page without the pattern looked for stops the process:   *)
(* the hidden token of the login page, the "My Page" link, the date or     *)
(* time field of an entry, the hidden token of the new-log form; and a     *)
(* cycle whose profile page showed no entry id sends no POST.              *)
(***************************************************************************)
Misses == {"login-token", "nav-link", "entry-field", "form-token"}

MissStops ==
    fault \in Misses =>
        /\ pc = "panic"
        /\ reqs # <<>>
        /\ reqs[Len(reqs)].method = "GET"
        /\ fault = "entry-field" => Posts = <<>>

C16_EveryMissIsFatal ==
    /\ MissStops
    /\ (Reconciled /\ entries = <<>>) => Posts = <<>>

(***************************************************************************)
(* C16 as the code has it: the four misses above stop the process with    *)
(* the GET of the page as its last request, but a profile page without an  *)
(* entry id is no failure: the cycle takes the event list to be empty and  *)
(* POSTs every fetched run, once.                                          *)
(***************************************************************************)
C16_MissesButNoEntryIds ==
    /\ MissStops
    /\ (CycleDone /\ entries = <<>>) =>
          /\ events = <<>>
          /\ Len(Posts) = Len(stravaActivities)
          /\ \A k \in 1..Len(stravaActivities) : PostsOfTurn(k) = 1

\* Taji100 holds the entry logged by hand, the profile page showed no
\* entry id, and the cycle POSTed all four fetched runs.
C16_Witness ==
    /\ CycleDone
    /\ entries = <<>>
    /\ Len(sink) >= 1
    /\ sink[1].id = "100"
    /\ resp = <<1, 2, 3, 4>>
    /\ Len(Posts) = Len(stravaActivities)
    /\ Len(Posts) >= 3

\* The process stopped at an entry page without a date or time field.
C16_WitnessMiss ==
    /\ pc = "panic"
    /\ fault = "entry-field"
    /\ Len(entries) = 1
    /\ events = <<>>

(***************************************************************************)
(* C17: the steps of a cycle come in the order fetch, profile page, one    *)
(* edit page per entry id, the loop over the runs with a form GET and a    *)
(* POST per missing run, the report (part_000; tajuploader.go has none),   *)
(* the sleep.  The events of the loop are those of the edit pages fetched  *)
(* in this cycle, all fetched before the first POST, and a new cycle       *)
(* starts only from the sleep or from the end of Initializing.             *)
(***************************************************************************)
\* The requests of the scrape: the profile page, then the first n edit pages.
ScrapeReqs(n) ==
    <<Req("GET", ProfileURL(taji.participant_id))>>
        \o [k \in 1..n |-> Req("GET", EditURL(entries[k]))]

\* The requests of the cycle after the scrape.
LoopReqs == SubSeq(reqs, Len(entries) + 2, Len(reqs))

InLoop == pc \in {"runs", "postRun", "updateOutput", "sleep"}

CycleShape ==
    /\ pc = "getTajiEntries" => (cycle >= 1 /\ reqs = <<>>)
    /\ (pc = "getTajiEvents") =>
          (Len(events) < Len(entries) /\ reqs = ScrapeReqs(Len(events)))
    /\ InLoop =>
          /\ Len(events) = Len(entries)
          /\ SubSeq(reqs, 1, Len(entries) + 1) = ScrapeReqs(Len(entries))
          /\ \A k \in 1..Len(entries) :
                events[k] = [date |-> SinkEntry(entries[k]).date,
                             time |-> SinkEntry(entries[k]).time]
          /\ \A n \in 1..Len(LoopReqs) :
                IF n % 2 = 1 THEN LoopReqs[n] = Req("GET", NewLogURL)
                ELSE /\ LoopReqs[n].method = "POST"
                     /\ LoopReqs[n].turn < ri
                     /\ n > 2 => LoopReqs[n - 2].turn < LoopReqs[n].turn
          /\ Len(LoopReqs) % 2 = (IF pc = "postRun" THEN 1 ELSE 0)
    /\ pc \in {"updateOutput", "sleep"} => ri > Len(stravaActivities)

\* A step of a redirect handler, whose goroutine runs beside main: it
\* leaves main where it is, or makes ListenAndServe return, and touches
\* nothing main reads after the exchange.
HandlerStep == run' = run /\ (running' # running \/ handled' # handled)

HandlerFrame ==
    HandlerStep =>
        /\ pc' = pc \/ (pc = "authStrava" /\ pc' = "exchange")
        /\ UNCHANGED <<env, token, taji, jar, stravaActivities, entries,
                       events, ri, formToken, envVars, histVars, exchanged>>

StepOrder ==
    (run' = run /\ ~HandlerStep) =>
        /\ (pc' = "getTajiEntries") => pc = "getStravaActivities"
        /\ (pc' = "getTajiEvents") => pc \in {"getTajiEntries", "getTajiEvents"}
        /\ (pc' = "runs" /\ pc # "runs") =>
              pc \in {"getTajiEntries", "getTajiEvents", "postRun"}
        /\ (pc' = "postRun") => pc = "runs"
        /\ (pc' = "updateOutput") => (pc = "runs" /\ reqs' = reqs)
        /\ (pc' = "sleep") =>
              /\ reqs' = reqs
              /\ IF build = "part_000" THEN pc = "updateOutput" ELSE pc = "runs"
        /\ (pc' = "getStravaActivities") => pc \in {"dumpEnvFile", "sleep"}
        /\ (cycle' # cycle) =>
              (pc = "getStravaActivities" /\ cycle' = cycle + 1)

C17_CycleOrder == []CycleShape /\ [][StepOrder /\ HandlerFrame]_vars

\* The second cycle of part_000 at its sleep, after the scrape of two
\* entries and two POSTs.
C17_Witness ==
    /\ build = "part_000"
    /\ pc = "sleep"
    /\ cycle = 2
    /\ Len(entries) >= 2
    /\ Len(Posts) >= 2
    /\ Len(reqs) = Len(entries) + 1 + 2 * Len(Posts)

(***************************************************************************)
(* C18: every POST of a run comes right after a GET of the new-log form    *)
(* page and carries the hidden token Taji100 issued with that page load;   *)
(* no two POSTs of a cycle carry the same token, and no POST carries the   *)
(* csrf cookie of the login or the stored csrf value.                      *)
(***************************************************************************)
\* The page loads of the new-log form among the first n requests.
FormLoads(n) ==
    Cardinality({m \in 1..n : reqs[m] = Req("GET", NewLogURL)})

PostAt == {n \in 1..Len(reqs) : reqs[n].method = "POST" /\ reqs[n].url = NewLogURL}

C18_FreshTokenPerPost ==
    /\ \A n \in PostAt :
          /\ n > 1
          /\ reqs[n - 1] = Req("GET", NewLogURL)
          /\ reqs[n].form.csrfmiddlewaretoken = "form" \o Dec(FormLoads(n - 1))
          /\ reqs[n].form.csrfmiddlewaretoken
                \notin {"", "csrf_anon", "csrf0", "csrf1", taji.csrf,
                        jar.csrftoken}
    /\ \A n, m \in PostAt :
          n # m => reqs[n].form.csrfmiddlewaretoken
                      # reqs[m].form.csrfmiddlewaretoken

\* Two POSTs of one cycle, with the tokens of the first and of the second
\* page load.
C18_Witness ==
    /\ Len(Posts) = 2
    /\ Posts[1].form.csrfmiddlewaretoken = "form1"
    /\ Posts[2].form.csrfmiddlewaretoken = "form2"
    /\ taji.csrf \in {"csrf0", "csrf1"}

(***************************************************************************)
(* C19: a process goes through Initializing once, in the order load, token *)
(* (with the OAuth flow when none is stored), Taji100 session (with the    *)
(* login when a value is missing), write of the env file, and only then    *)
(* starts Syncing.  In Syncing it holds a token and a Taji100 session, it  *)
(* never writes the env file or env, never goes back to a step of          *)
(* Initializing, and it stops only with a failure.                         *)
(***************************************************************************)
SyncPcs ==
    {"getStravaActivities", "getTajiEntries", "getTajiEvents", "runs",
     "postRun", "updateOutput", "sleep"}

Initialized ==
    pc \in SyncPcs =>
        /\ loadedBy # "none"
        /\ token.valid
        /\ env["STRAVA_TOKEN"] = Marshal(token)
        /\ \A k \in TajiKeys : Has(env, k)
        /\ jar = [csrftoken |-> env["TAJI_CSRF"], sessionid |-> env["TAJI_SESSION"]]
        /\ taji.participant_id = env["TAJI_PARTICIPANT"]

InitOrder ==
    (run' = run /\ ~HandlerStep) =>
        /\ (pc' = "initStrava") => pc = "loadEnvFile"
        /\ (pc' = "authStrava") => pc \in {"initStrava", "authStrava"}
        /\ (pc' = "exchange") => (pc = "authStrava" /\ handled = <<>>)
        /\ (pc' = "exchanging") => pc = "exchange"
        /\ (pc' = "initTaji") => pc \in {"initStrava", "exchanging"}
        /\ (pc' = "loginGet") => pc = "initTaji"
        /\ (pc' = "loginPost") => pc = "loginGet"
        /\ (pc' = "loginMain") => pc = "loginPost"
        /\ (pc' = "dumpEnvFile") => pc \in {"initTaji", "loginMain"}
        /\ (pc' \in SyncPcs /\ pc \notin SyncPcs) =>
              (pc = "dumpEnvFile" /\ pc' = "getStravaActivities")
        /\ (pc' = "loadEnvFile") => pc = "loadEnvFile"
        /\ (file' # file \/ fileExists' # fileExists) =>
              (pc = "dumpEnvFile" /\ file' = env /\ fileExists')

SyncStays ==
    (run' = run /\ pc \in SyncPcs) =>
        /\ pc' \in SyncPcs \cup {"fatal", "panic"}
        /\ file' = file
        /\ fileExists' = fileExists
        /\ env' = env
        /\ token' = token
        /\ jar' = jar
        /\ flows' = flows
        /\ (pc' \in {"fatal", "panic"}) => fault' # ""

\* Only a handler that closes the server, or a server that cannot listen,
\* takes main from ListenAndServe to the exchange.
ListenEnds ==
    (pc = "authStrava" /\ pc' # pc) =>
        /\ pc' = "exchange"
        /\ HandlerStep \/ handled = <<>>

C19_InitializeOnceThenSync ==
    []Initialized /\ [][InitOrder /\ ListenEnds /\ HandlerFrame /\ SyncStays]_vars

\* What a process in Syncing does hold: the token is what the text in env
\* decodes to, which is no token when initStrava read a text that is no
\* JSON; the Taji100 session is there.
InitializedButToken ==
    pc \in SyncPcs =>
        /\ loadedBy # "none"
        /\ Has(env, "STRAVA_TOKEN")
        /\ token = Unmarshal(env["STRAVA_TOKEN"])
        /\ ~token.valid => (env["STRAVA_TOKEN"] = Truncated /\ "oauth" \notin flows)
        /\ \A k \in TajiKeys : Has(env, k)
        /\ jar = [csrftoken |-> env["TAJI_CSRF"], sessionid |-> env["TAJI_SESSION"]]
        /\ taji.participant_id = env["TAJI_PARTICIPANT"]

\* The order of the steps, the single pass and the frame of Syncing.
C19_OrderOfSteps ==
    []InitializedButToken
        /\ [][InitOrder /\ ListenEnds /\ HandlerFrame /\ SyncStays]_vars

\* Syncing started without a token: the env file held a text that does not
\* decode, initStrava took it for a token, and the file was written again.
C19_SyncingWithoutToken ==
    /\ run = 1
    /\ cycle = 0
    /\ pc = "getStravaActivities"
    /\ token = NilToken
    /\ env["STRAVA_TOKEN"] = Truncated
    /\ flows = {}
    /\ writes = 1

\* The first fetch of that process reads the access token of no token.
C19_PanicAtFirstFetch ==
    /\ run = 1
    /\ cycle = 1
    /\ pc = "panic"
    /\ fault = "nil-token"
    /\ fetched = <<>>

\* A process that ran both interactive flows, wrote the env file and is in
\* the sleep of its second cycle.
C19_Witness ==
    /\ run = 1
    /\ cycle = 2
    /\ pc = "sleep"
    /\ flows = {"oauth", "login"}
    /\ fileBy = "auth-init"
    /\ file = env

(***************************************************************************)
(* C20: in every canonical run the time string is time_hours, ":",         *)
(* time_minutes, ":", time_ampm and the duration string is duration_hours, *)
(* ":", duration_minutes, ":", duration_seconds; the runs of a cycle stay  *)
(* as the fetch built them, and the form of every POST carries the fields  *)
(* of its run.                                                             *)
(***************************************************************************)
Consistent(r) ==
    /\ r.time = r.time_hours \o ":" \o r.time_minutes \o ":" \o r.time_ampm
    /\ r.duration = r.duration_hours \o ":" \o r.duration_minutes
                        \o ":" \o r.duration_seconds

RunsUnmodified ==
    [][(cycle' = cycle /\ run' = run /\ pc' # "getStravaActivities")
          => stravaActivities' = stravaActivities]_vars

C20_ConsistentDisplayStrings ==
    /\ [](\A k \in 1..Len(stravaActivities) : Consistent(stravaActivities[k]))
    /\ [](\A n \in 1..Len(Posts) :
            /\ Posts[n].turn \in 1..Len(stravaActivities)
            /\ SameFields(Posts[n].form, stravaActivities[Posts[n].turn])
            /\ Consistent(Posts[n].form))
    /\ RunsUnmodified

\* An afternoon run of 7300 seconds was POSTed with its strings.
C20_Witness ==
    /\ Len(Posts) = 1
    /\ Len(stravaActivities) = 1
    /\ stravaActivities[1].duration = "2:121:40"
    /\ Posts[1].form.duration_minutes = "121"
    /\ Posts[1].form.time = "09:30:AM"
    /\ Posts[1].form.time_ampm = "AM"

\* The same for a start in the evening, in the zone east of UTC.
C20_WitnessEvening ==
    /\ tz = 60
    /\ Len(Posts) = 1
    /\ Posts[1].form.time = "06:09:PM"
    /\ Posts[1].form.duration = "1:90:25"

(***************************************************************************)
(* C21: whatever the order in which the handlers of the accepted requests  *)
(* run, once a handler wrote a code the value that main passes to the      *)
(* exchange is not empty and is the code received, not a value written     *)
(* over it.                                                                *)
(***************************************************************************)
CodesHandled == {handled[i] : i \in Coded}

C21_ExchangeCodeNeverOverwritten ==
    (exchanged # Absent /\ Coded # {}) =>
        /\ exchanged # ""
        /\ exchanged \in CodesHandled
        /\ exchanged = FirstCode

\* What does hold in every interleaving: an exchange that gave a token was
\* made with a code a handler wrote, and any other value stopped the
\* process at the exchange.
C21_TokenOnlyForCode ==
    /\ (exchanged # Absent /\ "oauth" \in flows /\ token.valid) =>
          exchanged \in CodesHandled
    /\ (exchanged # Absent /\ exchanged \notin CodesHandled) =>
          pc = "exchanging" \/ (Terminated /\ fault = "exchange")
    /\ code \in Codes \cup {Torn}
    /\ exchanged \in Codes \cup {Torn, Absent}

\* The exchange stopped the process with an empty code although a handler
\* had written a code and closed the server.
C21_OverwrittenExchangeFails ==
    /\ pc = "fatal"
    /\ fault = "exchange"
    /\ exchanged = ""
    /\ handled = <<"authcode", "">>

\* The handler of the request without a code wrote code after main had
\* read it: the token was obtained and code is empty.
C21_OverwrittenAfterRead ==
    /\ token = FreshToken
    /\ exchanged = "authcode"
    /\ code = ""
    /\ handled = <<"authcode", "">>
    /\ NoneInFlight

\* The same write while main waits for the answer of conf.Exchange.
C21_OverwrittenDuringCall ==
    /\ pc = "exchanging"
    /\ exchanged = "authcode"
    /\ code = ""
    /\ handled = <<"authcode", "">>

\* Strava refused a code that main read as a handler wrote it.
C21_CodeRefused ==
    /\ pc = "fatal"
    /\ fault = "exchange"
    /\ exchanged = "authcode"
    /\ code = "authcode"
    /\ ClientComplete
    /\ token = NilToken

\* main read code while a handler wrote it.
C21_TornRead ==
    /\ exchanged = Torn
    /\ code = "authcode"
    /\ pc = "panic"
    /\ pending = SetToBag({""})

\* Two handlers wrote code at the same moment and main read the torn
\* string they left, with no handler in flight.
C21_TornWrite ==
    /\ code = Torn
    /\ exchanged = Torn
    /\ NoneInFlight
    /\ Terminated

(***************************************************************************)
(* C22: a process calls godotenv.Write at most once, at the end of         *)
(* Initializing, when it holds a token and the Taji100 session; the env    *)
(* file changes at no other step.  A process that stopped in Initializing  *)
(* has not written: after a failed login that followed the OAuth flow the  *)
(* new token is in env but not in the env file.                            *)
(***************************************************************************)
\* The program holds a token.
SourceSession == token.valid

\* The program holds the three Taji100 values, stored or from the login.
SinkSession ==
    /\ \A k \in TajiKeys : Has(env, k)
    /\ jar = [csrftoken |-> env["TAJI_CSRF"], sessionid |-> env["TAJI_SESSION"]]
    /\ taji.participant_id = env["TAJI_PARTICIPANT"]

\* The process stopped in loginTaji.
LoginFailed ==
    /\ Terminated
    /\ reqs # <<>>
    /\ reqs[Len(reqs)].url \in {LoginURL, MainURL}

\* The process stopped in Initializing.
InitFailed ==
    \/ LoginFailed
    \/ Terminated /\ fault \in {"env-file", "client-credential", "exchange"}

WrittenOnceWhenReady ==
    /\ writes <= 1
    /\ writes = 1 <=> pc \in SyncPcs \/ (Terminated /\ ~InitFailed)
    /\ InitFailed =>
          /\ writes = 0
          /\ fileBy = loadedBy \/ loadedBy = "none"
    /\ (LoginFailed /\ "oauth" \in flows) =>
          /\ token = FreshToken
          /\ env["STRAVA_TOKEN"] = Marshal(FreshToken)
          /\ ~Has(file, "STRAVA_TOKEN")

FileStep ==
    (file' # file \/ fileExists' # fileExists \/ writes' > writes) =>
        /\ pc = "dumpEnvFile"
        /\ writes = 0
        /\ writes' = 1
        /\ SourceSession
        /\ SinkSession
        /\ file' \in {file, env}

C22_StoreWrittenOnceAfterBothSessions ==
    []WrittenOnceWhenReady /\ [][FileStep]_vars

\* What does hold of the write: one at most, in dumpEnvFile, with the
\* Taji100 session, and with a token unless the stored text did not decode.
FileStepButToken ==
    (file' # file \/ fileExists' # fileExists \/ writes' > writes) =>
        /\ pc = "dumpEnvFile"
        /\ writes = 0
        /\ writes' = 1
        /\ SinkSession
        /\ token = Unmarshal(env["STRAVA_TOKEN"])
        /\ ~SourceSession =>
              (file["STRAVA_TOKEN"] = Truncated /\ file'["STRAVA_TOKEN"] = Truncated)
        /\ file' \in {file, env}

C22_WrittenOnceAtEndOfInit ==
    []WrittenOnceWhenReady /\ [][FileStepButToken]_vars

\* The env file was written by a process that holds no token.
C22_WrittenWithoutToken ==
    /\ run = 1
    /\ writes = 1
    /\ pc = "getStravaActivities"
    /\ ~SourceSession
    /\ SinkSession
    /\ file["STRAVA_TOKEN"] = Truncated

\* The OAuth flow gave a token, the login that followed was refused, and
\* the env file is without a token as before.
C22_Witness ==
    /\ LoginFailed
    /\ fault = "nav-link"
    /\ flows = {"oauth", "login"}
    /\ token = FreshToken
    /\ ~Has(file, "STRAVA_TOKEN")
    /\ writes = 0

\* A process that wrote the env file once and is in its second cycle.
C22_WitnessWritten ==
    /\ run = 1
    /\ cycle = 2
    /\ writes = 1
    /\ fileBy = "auth-init"
    /\ file["STRAVA_TOKEN"] = Marshal(FreshToken)

=============================================================================
